---- MODULE Spec2Model ----
(***************************************************************************)
(* A model of data_generator.py: generate_data and its inner corruptor     *)
(* perturb.                                                                *)
(*                                                                         *)
(* Texts are sequences of one-character strings.  Python's None is the     *)
(* token None below, which differs from every text because no character    *)
(* is the string "None".  A record (a Python dict) lives in a heap and is  *)
(* referred to by its index there, so that copying a record and aliasing   *)
(* it are different things, as they are in Python.                         *)
(*                                                                         *)
(* The random module and Faker are modelled by the values their calls      *)
(* return.  A generator's state is the seed it was given and the number of *)
(* values drawn since (pos); two generators in the same state return the   *)
(* same values, and nothing else is known about the values.                *)
(***************************************************************************)
EXTENDS Integers, Sequences, FiniteSets, TLC

\* ------------------------------------------------------------------ bounds

\* Largest number of rows one call is asked for (unique plus duplicate).
MaxRows == 2
\* Longest text handed to perturb when it is checked on its own.
MaxLen == 3

\* --------------------------------------------------------------- constants

\* perturb corrupts unless random.random() > 0.3; values are hundredths.
CorruptThreshold == 30
\* A field is dropped when random.random() < 0.1; values are hundredths.
DropThreshold == 10
\* The default seed of generate_data.
DefaultSeed == 42

None == <<"None">>
NL == "\n"

\* Representative results of random.random(), in hundredths: one below both
\* thresholds and one above both.  No draw is compared with both thresholds,
\* and 0.1 and 0.3 themselves are not multiples of 2^-53, so never returned.
RandomValues == {5, 50}

\* string.ascii_letters, cut down to one letter.
AsciiLetters == {"a"}

\* The list random.choice picks the operation from.
Ops == <<"del", "ins", "rep", "swap">>

\* ---------------------------------------------------------- Python helpers

\* Python truthiness of a text-or-None: `not text` holds for None and "".
Truthy(text) == text # None /\ text # <<>>

\* random.choice(seq): the values it can return.
Choice(seq) == {seq[k] : k \in 1..Len(seq)}

\* random.randint(a, b): the values it can return.
RandInt(a, b) == a..b

\* A list index i (0-based, negative counts from the end) is usable for
\* chars[i] and del chars[i] iff -len <= i < len.
ValidIndex(chars, idx) == -Len(chars) <= idx /\ idx < Len(chars)

\* The 1-based position a valid Python index denotes.
Pos(chars, idx) == IF idx < 0 THEN Len(chars) + idx + 1 ELSE idx + 1

\* del chars[idx]
ListDel(chars, idx) ==
    IF ValidIndex(chars, idx)
    THEN [raised |-> FALSE,
          chars |-> SubSeq(chars, 1, Pos(chars, idx) - 1)
                    \o SubSeq(chars, Pos(chars, idx) + 1, Len(chars))]
    ELSE [raised |-> TRUE, chars |-> chars]

\* chars.insert(idx, x): never raises, the index is clamped to 0..len.
ListInsert(chars, idx, x) ==
    LET at == IF idx < 0
              THEN (IF Len(chars) + idx < 0 THEN 0 ELSE Len(chars) + idx)
              ELSE (IF idx > Len(chars) THEN Len(chars) ELSE idx)
    IN  [raised |-> FALSE,
         chars |-> SubSeq(chars, 1, at) \o <<x>> \o SubSeq(chars, at + 1, Len(chars))]

\* chars[idx] = x
ListSet(chars, idx, x) ==
    IF ValidIndex(chars, idx)
    THEN [raised |-> FALSE, chars |-> [chars EXCEPT ![Pos(chars, idx)] = x]]
    ELSE [raised |-> TRUE, chars |-> chars]

\* chars[idx], chars[idx2] = chars[idx2], chars[idx]: both reads, then the
\* two stores in order.
ListSwap(chars, idx, idx2) ==
    IF ValidIndex(chars, idx) /\ ValidIndex(chars, idx2)
    THEN LET a == chars[Pos(chars, idx2)]
             b == chars[Pos(chars, idx)]
             c1 == [chars EXCEPT ![Pos(chars, idx)] = a]
         IN  [raised |-> FALSE, chars |-> [c1 EXCEPT ![Pos(chars, idx2)] = b]]
    ELSE [raised |-> TRUE, chars |-> chars]

\* ----------------------------------------------------------------- perturb

\* A variant of IdxRange that also draws the position one past the end.
IdxRangePastEnd(chars) == RandInt(0, Len(chars))

\* random.randint(0, len(chars)-1): the positions perturb can draw.
IdxRange(chars) == RandInt(0, Len(chars) - 1)

\* A variant of SwapPartner that always takes the next position.
SwapPartnerNext(idx, len) == idx + 1

\* idx2 = idx + 1 if idx < len(chars) - 1 else idx - 1
SwapPartner(idx, len) == IF idx < len - 1 THEN idx + 1 ELSE idx - 1

\* The draws one call of perturb makes, in the order it makes them:
\* random.random(), random.choice(ops), random.randint(...), and
\* random.choice(string.ascii_letters).  A call that returns early or takes a
\* branch without a letter leaves the later ones undrawn: an undrawn value
\* is 0 or "".
AllDraws(text) ==
    [r : RandomValues \cup {0},
     op : Choice(Ops) \cup {""},
     idx : IdxRange(text) \cup {0},
     letter : AsciiLetters \cup {""}]

\* perturb(text) with the draws d: the value returned (or raised, when a list
\* operation fails with IndexError) and the number of draws consumed.
Perturb(text, d) ==
    IF ~Truthy(text) THEN [value |-> text, raised |-> FALSE, used |-> 0]
    ELSE IF d.r > CorruptThreshold THEN [value |-> text, raised |-> FALSE, used |-> 1]
    ELSE LET chars == text
             res == CASE d.op = "del" -> ListDel(chars, d.idx)
                      [] d.op = "ins" -> ListInsert(chars, d.idx, d.letter)
                      [] d.op = "rep" -> ListSet(chars, d.idx, d.letter)
                      [] d.op = "swap" /\ Len(chars) > 1 ->
                             ListSwap(chars, d.idx, SwapPartner(d.idx, Len(chars)))
                      [] OTHER -> [raised |-> FALSE, chars |-> chars]
         IN  [value |-> res.chars,
              raised |-> res.raised,
              used |-> IF d.op \in {"ins", "rep"} THEN 4 ELSE 3]

\* The draws perturb(text) can consume: exactly those it asks for.
PerturbDraws(text) ==
    {d \in AllDraws(text) :
        LET u == Perturb(text, d).used
        IN  /\ (d.r # 0) = (u >= 1)
            /\ (d.op # "") = (u >= 3)
            /\ (u < 3) => (d.idx = 0)
            /\ (d.letter # "") = (u >= 4)}

\* ------------------------------------------------------------- the provider

\* What fake.name() can return: non-empty texts, a one-character one included.
PersonNames == {<<"a">>, <<"a", ".">>}

\* What fake.address() can return: a text with a line break in it.
PostalAddresses == {<<"1", NL>>}

\* What fake.city() can return.
CityNames == {<<"c">>}

\* What fake.date_of_birth() can return: a date.
BirthDates == {[year |-> 1, month |-> 2, day |-> 3]}

\* The values one unique record takes from the provider after its uuid4().
ProviderDraws ==
    [name : PersonNames, address : PostalAddresses, city : CityNames, dob : BirthDates]

\* fake.uuid4(): the identifier drawn by a provider in state fk.  The provider
\* is taken to return pairwise distinct identifiers: the one drawn at
\* position pos is pos itself.
Uuid4(fk) == fk.pos

\* address.replace('\n', ', ')
RECURSIVE Flatten(_)
Flatten(address) ==
    IF address = <<>> THEN <<>>
    ELSE (IF Head(address) = NL THEN <<",", " ">> ELSE <<Head(address)>>)
         \o Flatten(Tail(address))

Digits == <<"0", "1", "2", "3", "4", "5", "6", "7", "8", "9">>

\* str(date): year, month and day joined by "-" (one digit each here).
StrDate(date) ==
    <<Digits[date.year + 1], "-", Digits[date.month + 1], "-", Digits[date.day + 1]>>

\* ------------------------------------------------------------ generate_data

Runs == {1, 2}

\* The seeds a call is given.
Seeds == {DefaultSeed}

NonNeg(n) == IF n < 0 THEN 0 ELSE n

\* The pairs (n_unique, n_duplicates) a call is given, negative ones included.
Counts ==
    {c \in (-1..MaxRows) \X (-1..MaxRows) : NonNeg(c[1]) + NonNeg(c[2]) <= MaxRows}

VARIABLES
    pc,            \* where each call stands
    n_unique,      \* the arguments of each call
    n_duplicates,
    seed,
    rng,           \* the random module's generator: [seed, pos]
    fake,          \* Faker's generator: [seed, pos]
    heap,          \* the dicts allocated so far, by reference
    data,          \* the list `data`: references into heap
    record,        \* the local `record` of the unique pass (a reference, 0: unset)
    orig,          \* the local `orig` of the duplicate pass (a reference, 0: unset)
    dup,           \* the local `dup` of the duplicate pass (a reference, 0: unset)
    i,             \* the index of the running for loop
    error,         \* the exception the call ended with ("" : none)
    result,        \* the rows of the DataFrame returned
    dupLog,        \* history: each duplicate's source and the fields perturbed
    text,          \* a lone call of perturb: its argument,
    pdraw,         \* its draws,
    out,           \* what it returned,
    ppc            \* and where it stands

genVars == <<pc, n_unique, n_duplicates, seed, rng, fake, heap, data, record,
             orig, dup, i, error, result, dupLog>>
perturbVars == <<text, pdraw, out, ppc>>
vars == <<pc, n_unique, n_duplicates, seed, rng, fake, heap, data, record,
          orig, dup, i, error, result, dupLog, text, pdraw, out, ppc>>

\* f with the calls in v's domain set to v[r].
Upd(f, v) == [r \in Runs |-> IF r \in DOMAIN v THEN v[r] ELSE f[r]]

\* The draws the calls in D's domain make from generators in the states
\* key[r], each from D[r]: calls whose generators are in the same state draw
\* the same.
Coupled(key, D) ==
    LET R == DOMAIN D
        r0 == CHOOSE r \in R : TRUE
    IN  IF \A r \in R : key[r] = key[r0]
        THEN {[r \in R |-> d] : d \in D[r0]}
        ELSE {f \in [R -> UNION {D[r] : r \in R}] : \A r \in R : f[r] \in D[r]}

Advance(g, n) == [g EXCEPT !.pos = @ + n]

\* random.seed() without an argument: seeded from the system's entropy,
\* which differs from call to call.
SeedFromEntropy(s, r) == [seed |-> -r, pos |-> 0]

\* random.seed(seed) / Faker.seed(seed) in call r.
SeedRandom(s, r) == [seed |-> s, pos |-> 0]

\* A for loop that also runs for i = n.
InRangeInclusive(k, n) == k <= n

\* for _ in range(n): whether the loop body runs for index k.
InRange(k, n) == k < n

\* list[:n], negative n counting from the end.
Slice(list, n) ==
    IF n >= 0 THEN SubSeq(list, 1, IF n < Len(list) THEN n ELSE Len(list))
    ELSE SubSeq(list, 1, NonNeg(Len(list) + n))

\* The record literal of the unique pass: uid is both id and original_id,
\* the address is flattened to one line, the date turned into text.
NewRecord(uid, d) ==
    [id |-> uid, original_id |-> uid, name |-> d.name,
     address |-> Flatten(d.address), city |-> d.city,
     date_of_birth |-> StrDate(d.dob)]

DropFieldNames == <<"address", "city", "date_of_birth">>

\* for field in [...]: if random.random() < 0.1: rec[field] = None
DropFields(rec, d) ==
    [f \in DOMAIN rec |->
        IF \E k \in 1..3 : DropFieldNames[k] = f /\ d[k] < DropThreshold
        THEN None ELSE rec[f]]

DropDraws == [1..3 -> RandomValues]

\* `dup = orig`: no copy, the same dict under another name.
DictAlias(h, ref) == [heap |-> h, ref |-> ref]

\* orig.copy(): a new dict with the same items.
DictCopy(h, ref) == [heap |-> Append(h, h[ref]), ref |-> Len(h) + 1]

\* The corruptor called on the address whether or not it is there.
DupAddressAlways(address, d) == [called |-> TRUE, res |-> Perturb(address, d)]

\* perturb(orig['address']) if orig['address'] else None
DupAddress(address, d) ==
    IF Truthy(address)
    THEN [called |-> TRUE, res |-> Perturb(address, d)]
    ELSE [called |-> FALSE, res |-> [value |-> None, raised |-> FALSE, used |-> 0]]

\* pd.DataFrame(data): one row per dict of the list, in order.
DataFrame(h, list) == [k \in 1..Len(list) |-> h[list[k]]]

Unseeded == [seed |-> 0, pos |-> 0]

InitGen(started) ==
    /\ pc = [r \in Runs |-> IF r \in started THEN "start" ELSE "idle"]
    /\ rng = [r \in Runs |-> Unseeded]
    /\ fake = [r \in Runs |-> Unseeded]
    /\ heap = [r \in Runs |-> <<>>]
    /\ data = [r \in Runs |-> <<>>]
    /\ record = [r \in Runs |-> 0]
    /\ orig = [r \in Runs |-> 0]
    /\ dup = [r \in Runs |-> 0]
    /\ i = [r \in Runs |-> 0]
    /\ error = [r \in Runs |-> ""]
    /\ result = [r \in Runs |-> <<>>]
    /\ dupLog = [r \in Runs |-> <<>>]

NoDraws == [r |-> 0, op |-> "", idx |-> 0, letter |-> ""]
NoOutcome == [value |-> None, raised |-> FALSE, used |-> 0]

InitPerturbIdle ==
    /\ text = None /\ pdraw = NoDraws /\ out = NoOutcome /\ ppc = "idle"

\* One call of generate_data, with any arguments.
Init ==
    /\ InitGen({1})
    /\ InitPerturbIdle
    /\ \E c \in Counts, s \in Seeds :
        /\ n_unique = [r \in Runs |-> IF r = 1 THEN c[1] ELSE 0]
        /\ n_duplicates = [r \in Runs |-> IF r = 1 THEN c[2] ELSE 0]
        /\ seed = [r \in Runs |-> IF r = 1 THEN s ELSE DefaultSeed]

\* Two calls of generate_data with the same arguments.
InitDet ==
    /\ InitGen(Runs)
    /\ InitPerturbIdle
    /\ \E c \in Counts, s \in Seeds :
        /\ n_unique = [r \in Runs |-> c[1]]
        /\ n_duplicates = [r \in Runs |-> c[2]]
        /\ seed = [r \in Runs |-> s]

\* fake = Faker(); Faker.seed(seed); random.seed(seed); data = []
Seed(R) ==
    /\ \A r \in R : pc[r] = "start"
    /\ fake' = Upd(fake, [r \in R |-> SeedRandom(seed[r], r)])
    /\ rng' = Upd(rng, [r \in R |-> SeedRandom(seed[r], r)])
    /\ data' = Upd(data, [r \in R |-> <<>>])
    /\ pc' = Upd(pc, [r \in R |-> "unique"])
    /\ UNCHANGED <<n_unique, n_duplicates, seed, heap, record, orig, dup, i,
                   error, result, dupLog>>
    /\ UNCHANGED perturbVars

\* The unique pass's loop body up to the record literal.
UniqueCreate(R) ==
    /\ \A r \in R : pc[r] = "unique" /\ InRange(i[r], n_unique[r])
    /\ \E d \in Coupled(fake, [r \in R |-> ProviderDraws]) :
        /\ heap' = Upd(heap, [r \in R |->
                          Append(heap[r], NewRecord(Uuid4(fake[r]), d[r]))])
        /\ record' = Upd(record, [r \in R |-> Len(heap[r]) + 1])
    /\ fake' = Upd(fake, [r \in R |-> Advance(fake[r], 5)])
    /\ pc' = Upd(pc, [r \in R |-> "drop_u"])
    /\ UNCHANGED <<n_unique, n_duplicates, seed, rng, data, orig, dup, i,
                   error, result, dupLog>>
    /\ UNCHANGED perturbVars

\* The unique pass's dropout loop and data.append(record).
UniqueDropout(R) ==
    /\ \A r \in R : pc[r] = "drop_u"
    /\ \E d \in Coupled(rng, [r \in R |-> DropDraws]) :
        heap' = Upd(heap, [r \in R |->
                    [heap[r] EXCEPT ![record[r]] = DropFields(@, d[r])]])
    /\ rng' = Upd(rng, [r \in R |-> Advance(rng[r], 3)])
    /\ data' = Upd(data, [r \in R |-> Append(data[r], record[r])])
    /\ i' = Upd(i, [r \in R |-> i[r] + 1])
    /\ pc' = Upd(pc, [r \in R |-> "unique"])
    /\ UNCHANGED <<n_unique, n_duplicates, seed, fake, record, orig, dup,
                   error, result, dupLog>>
    /\ UNCHANGED perturbVars

\* range(n_unique) is exhausted: on to the duplicate pass.
UniqueDone(R) ==
    /\ \A r \in R : pc[r] = "unique" /\ ~InRange(i[r], n_unique[r])
    /\ i' = Upd(i, [r \in R |-> 0])
    /\ pc' = Upd(pc, [r \in R |-> "dup"])
    /\ UNCHANGED <<n_unique, n_duplicates, seed, rng, fake, heap, data, record,
                   orig, dup, error, result, dupLog>>
    /\ UNCHANGED perturbVars

\* orig = random.choice(data[:n_unique]); dup = orig.copy()
DupChoose(R) ==
    /\ \A r \in R : /\ pc[r] = "dup" /\ InRange(i[r], n_duplicates[r])
                    /\ Slice(data[r], n_unique[r]) # <<>>
    /\ \E d \in Coupled(rng, [r \in R |-> Choice(Slice(data[r], n_unique[r]))]) :
        /\ orig' = Upd(orig, [r \in R |-> d[r]])
        /\ heap' = Upd(heap, [r \in R |-> DictCopy(heap[r], d[r]).heap])
        /\ dup' = Upd(dup, [r \in R |-> DictCopy(heap[r], d[r]).ref])
    /\ rng' = Upd(rng, [r \in R |-> Advance(rng[r], 1)])
    /\ pc' = Upd(pc, [r \in R |-> "update"])
    /\ UNCHANGED <<n_unique, n_duplicates, seed, fake, data, record, i,
                   error, result, dupLog>>
    /\ UNCHANGED perturbVars

\* random.choice of an empty list raises IndexError, which ends the call.
DupChooseEmpty(R) ==
    /\ \A r \in R : /\ pc[r] = "dup" /\ InRange(i[r], n_duplicates[r])
                    /\ Slice(data[r], n_unique[r]) = <<>>
    /\ error' = Upd(error, [r \in R |-> "IndexError"])
    /\ pc' = Upd(pc, [r \in R |-> "raised"])
    /\ UNCHANGED <<n_unique, n_duplicates, seed, rng, fake, heap, data, record,
                   orig, dup, i, result, dupLog>>
    /\ UNCHANGED perturbVars

\* The items of the update without a new id.
UpdateItemsNoId(uid, name, address) == [name |-> name, address |-> address]

\* {'id': ..., 'name': ..., 'address': ...}: the dict handed to dup.update.
UpdateItems(uid, name, address) == [id |-> uid, name |-> name, address |-> address]

\* rec.update(items): the items' keys overwritten, the others kept.
DictUpdate(rec, items) ==
    [f \in DOMAIN rec |-> IF f \in DOMAIN items THEN items[f] ELSE rec[f]]

\* The draws of the two calls of perturb in the update.
UpdateDraws(rec) == [pn : PerturbDraws(rec.name), pa : PerturbDraws(rec.address)]

\* dup.update({'id': fake.uuid4(), 'name': perturb(orig['name']),
\*             'address': perturb(orig['address']) if orig['address'] else None})
\* An IndexError out of perturb ends the call.
DupUpdate(R) ==
    /\ \A r \in R : pc[r] = "update"
    /\ \E d \in Coupled(rng, [r \in R |-> UpdateDraws(heap[r][orig[r]])]) :
        LET src(r) == heap[r][orig[r]]
            nm(r) == Perturb(src(r).name, d[r].pn)
            ad(r) == DupAddress(src(r).address, d[r].pa)
            bad(r) == nm(r).raised \/ ad(r).res.raised
            items(r) == UpdateItems(Uuid4(fake[r]), nm(r).value, ad(r).res.value)
            called(r) == {"name"} \cup (IF ad(r).called THEN {"address"} ELSE {})
        IN  /\ heap' = Upd(heap, [r \in R |->
                   IF bad(r) THEN heap[r]
                   ELSE [heap[r] EXCEPT ![dup[r]] = DictUpdate(@, items(r))]])
            /\ rng' = Upd(rng, [r \in R |->
                   Advance(rng[r], nm(r).used + ad(r).res.used)])
            /\ dupLog' = Upd(dupLog, [r \in R |->
                   Append(dupLog[r], [orig |-> orig[r], perturbed |-> called(r)])])
            /\ error' = Upd(error, [r \in R |->
                   IF bad(r) THEN "IndexError" ELSE error[r]])
            /\ pc' = Upd(pc, [r \in R |-> IF bad(r) THEN "raised" ELSE "drop_d"])
    /\ fake' = Upd(fake, [r \in R |-> Advance(fake[r], 1)])
    /\ UNCHANGED <<n_unique, n_duplicates, seed, data, record, orig, dup, i, result>>
    /\ UNCHANGED perturbVars

\* The duplicate pass's dropout loop and data.append(dup).
DupDropout(R) ==
    /\ \A r \in R : pc[r] = "drop_d"
    /\ \E d \in Coupled(rng, [r \in R |-> DropDraws]) :
        heap' = Upd(heap, [r \in R |-> [heap[r] EXCEPT ![dup[r]] = DropFields(@, d[r])]])
    /\ rng' = Upd(rng, [r \in R |-> Advance(rng[r], 3)])
    /\ data' = Upd(data, [r \in R |-> Append(data[r], dup[r])])
    /\ i' = Upd(i, [r \in R |-> i[r] + 1])
    /\ pc' = Upd(pc, [r \in R |-> "dup"])
    /\ UNCHANGED <<n_unique, n_duplicates, seed, fake, record, orig, dup,
                   error, result, dupLog>>
    /\ UNCHANGED perturbVars

\* return pd.DataFrame(data)
Return(R) ==
    /\ \A r \in R : pc[r] = "dup" /\ ~InRange(i[r], n_duplicates[r])
    /\ result' = Upd(result, [r \in R |-> DataFrame(heap[r], data[r])])
    /\ pc' = Upd(pc, [r \in R |-> "done"])
    /\ UNCHANGED <<n_unique, n_duplicates, seed, rng, fake, heap, data, record,
                   orig, dup, i, error, dupLog>>
    /\ UNCHANGED perturbVars

First == {1}

Next ==
    \/ Seed(First)
    \/ UniqueCreate(First)
    \/ UniqueDropout(First)
    \/ UniqueDone(First)
    \/ DupChoose(First)
    \/ DupChooseEmpty(First)
    \/ DupUpdate(First)
    \/ DupDropout(First)
    \/ Return(First)

Spec == Init /\ [][Next]_vars

\* The two calls stepped side by side.
NextDet ==
    \/ Seed(Runs)
    \/ UniqueCreate(Runs)
    \/ UniqueDropout(Runs)
    \/ UniqueDone(Runs)
    \/ DupChoose(Runs)
    \/ DupChooseEmpty(Runs)
    \/ DupUpdate(Runs)
    \/ DupDropout(Runs)
    \/ Return(Runs)

SpecDet == InitDet /\ [][NextDet]_vars

\* ------------------------------------------------------- perturb on its own

\* The characters of the texts perturb is called on: the letter of
\* AsciiLetters, a space and a digit.
TextChars == {"a", " ", "1"}

\* The arguments of a lone call of perturb: None and every text up to MaxLen.
Texts == {None} \cup UNION {[1..n -> TextChars] : n \in 0..MaxLen}

InitPerturb ==
    /\ InitGen({})
    /\ n_unique = [r \in Runs |-> 0]
    /\ n_duplicates = [r \in Runs |-> 0]
    /\ seed = [r \in Runs |-> DefaultSeed]
    /\ text \in Texts
    /\ pdraw = NoDraws
    /\ out = NoOutcome
    /\ ppc = "call"

\* One call perturb(text), with any draws it can make.
PerturbCall ==
    /\ ppc = "call"
    /\ \E d \in PerturbDraws(text) :
        /\ pdraw' = d
        /\ out' = Perturb(text, d)
    /\ ppc' = "ret"
    /\ UNCHANGED text
    /\ UNCHANGED genVars

NextPerturb == PerturbCall

SpecPerturb == InitPerturb /\ [][NextPerturb]_vars

\* ------------------------------------------------------------ the dataset

Fields == {"name", "address", "city", "date_of_birth"}

\* (n_unique, n_duplicates) of call r is valid: neither is negative, and there
\* is a unique record to sample whenever a duplicate is asked for.
ValidCounts(r) ==
    /\ n_unique[r] >= 0
    /\ n_duplicates[r] >= 0
    /\ (n_duplicates[r] >= 1) => (n_unique[r] >= 1)

\* The positions of the unique rows in a dataset of call r.
UniqueRows(r, rows) ==
    1..(IF NonNeg(n_unique[r]) < Len(rows) THEN NonNeg(n_unique[r]) ELSE Len(rows))

\* The positions of the duplicate rows.
DupRows(r, rows) == (1..Len(rows)) \ UniqueRows(r, rows)

\* The history entry of the duplicate in row k.
LogOf(r, rows, k) == dupLog[r][k - Cardinality(UniqueRows(r, rows))]

\* -------------------------------------------- one character-level operation

\* t without its k-th character (k counted from 1).
Deleted(t, k) == [j \in 1..(Len(t) - 1) |-> IF j < k THEN t[j] ELSE t[j + 1]]

\* t with c put in front of its k-th character.
Inserted(t, k, c) ==
    [j \in 1..(Len(t) + 1) |-> IF j < k THEN t[j] ELSE IF j = k THEN c ELSE t[j - 1]]

\* t with its k-th character replaced by c.
Replaced(t, k, c) == [j \in 1..Len(t) |-> IF j = k THEN c ELSE t[j]]

\* t with its k-th and m-th characters exchanged.
Exchanged(t, k, m) ==
    [j \in 1..Len(t) |-> IF j = k THEN t[m] ELSE IF j = m THEN t[k] ELSE t[j]]

\* Every text that is t with one operation applied at one of its positions.
OneOp(t) ==
    {Deleted(t, k) : k \in 1..Len(t)}
    \cup {Inserted(t, k, c) : k \in 1..Len(t), c \in AsciiLetters}
    \cup {Replaced(t, k, c) : k \in 1..Len(t), c \in AsciiLetters}
    \cup {Exchanged(t, k, k + 1) : k \in 1..(Len(t) - 1)}

\* The number of positions at which two texts of one length differ.
Hamming(a, b) == Cardinality({j \in 1..Len(a) : a[j] # b[j]})

\* o is within one insertion, one deletion or two substitutions of t.
EditBound(t, o) ==
    /\ Len(o) - Len(t) \in {-1, 0, 1}
    /\ (Len(o) = Len(t)) => (Hamming(t, o) <= 2)
    /\ (Len(o) = Len(t) - 1) => (\E k \in 1..Len(t) : o = Deleted(t, k))
    /\ (Len(o) = Len(t) + 1) => (\E k \in 1..Len(o) : t = Deleted(o, k))

\* The lone call of perturb has returned from its corrupt branch.
Corrupted == ppc = "ret" /\ Truthy(text) /\ pdraw.op # ""

\* ------------------------------------------------------------------ claims

\* C1: for valid counts a call never fails, and the dataset it returns has
\* exactly n_unique + n_duplicates rows, the first n_unique being unique
\* records (id = original_id) and the remaining n_duplicates duplicates
\* (a fresh id, the original_id of a unique record).
CountInvariant ==
    \A r \in Runs :
        ValidCounts(r) =>
            /\ pc[r] # "raised"
            /\ (pc[r] = "done") =>
                /\ Len(result[r]) = n_unique[r] + n_duplicates[r]
                /\ \A k \in 1..n_unique[r] :
                      result[r][k].id = result[r][k].original_id
                /\ \A k \in (n_unique[r] + 1)..(n_unique[r] + n_duplicates[r]) :
                      /\ result[r][k].id # result[r][k].original_id
                      /\ \E u \in 1..n_unique[r] :
                            result[r][u].id = result[r][k].original_id

CountWitness ==
    /\ pc[1] = "done" /\ n_unique[1] = 1 /\ n_duplicates[1] = 1
    /\ Len(result[1]) = 2

DegenerateRejected ==
    \A r \in Runs :
        (n_unique[r] = 0 /\ n_duplicates[r] > 0) =>
            /\ pc[r] # "done"
            /\ dup[r] = 0
            /\ (pc[r] = "raised") => (error[r] = "InvalidConfiguration")

\* C4: a call with a negative count returns no dataset and ends with an
\* InvalidConfiguration error.
NegativeRejected ==
    \A r \in Runs :
        (n_unique[r] < 0 \/ n_duplicates[r] < 0) =>
            /\ pc[r] # "done"
            /\ (pc[r] = "raised") => (error[r] = "InvalidConfiguration")

\* C5: two calls with the same arguments, stepped side by side: each
\* generator keeps the seed the call was given from the first statement on,
\* both calls have drawn the same number of values at every step, and they
\* hold and return the same rows.
Determinism ==
    /\ \A r \in Runs :
          (pc[r] # "start") => (rng[r].seed = seed[r] /\ fake[r].seed = seed[r])
    /\ (n_unique[1] = n_unique[2] /\ n_duplicates[1] = n_duplicates[2]
        /\ seed[1] = seed[2]) =>
          /\ pc[1] = pc[2]
          /\ rng[1] = rng[2]
          /\ fake[1] = fake[2]
          /\ error[1] = error[2]
          /\ DataFrame(heap[1], data[1]) = DataFrame(heap[2], data[2])
          /\ result[1] = result[2]

DeterminismWitness ==
    /\ pc[1] = "done" /\ pc[2] = "done"
    /\ n_unique[1] = 1 /\ n_duplicates[1] = 1
    /\ Len(result[2]) = 2
    /\ result[2][2].name # result[2][1].name
    /\ result[2][1].address # None
    /\ result[2][2].address \notin {None, result[2][1].address}
    /\ result[2][2].city = None /\ result[2][1].city # None

\* C6 as stated: whenever perturb takes its corrupt branch on a non-empty
\* text, the result is the text with exactly one delete, insert, replace or
\* exchange of neighbours applied at one of its positions, so within one
\* character of its length and within edit distance 1 (2 for a swap).
PerturbExactlyOneOp ==
    Corrupted =>
        /\ ~out.raised
        /\ out.value \in OneOp(text)
        /\ EditBound(text, out.value)

\* C6 as amended: whenever perturb takes its corrupt branch on a non-empty
\* text, the position drawn is one of the text's, and the result is the text
\* with the drawn operation applied there: that character deleted, the drawn
\* letter inserted before it, it replaced by the drawn letter, or it
\* exchanged with a neighbour; except that a swap drawn on a one-character
\* text leaves the text as it is.  The length and edit-distance bounds hold
\* in every case.
PerturbOneOperation ==
    Corrupted =>
        LET k == pdraw.idx + 1
        IN  /\ ~out.raised
            /\ k \in 1..Len(text)
            /\ (pdraw.op = "del") => (out.value = Deleted(text, k))
            /\ (pdraw.op = "ins") =>
                  (pdraw.letter \in AsciiLetters
                   /\ out.value = Inserted(text, k, pdraw.letter))
            /\ (pdraw.op = "rep") =>
                  (pdraw.letter \in AsciiLetters
                   /\ out.value = Replaced(text, k, pdraw.letter))
            /\ (pdraw.op = "swap" /\ Len(text) > 1) =>
                  (\E m \in {k - 1, k + 1} \cap (1..Len(text)) :
                      out.value = Exchanged(text, k, m))
            /\ (pdraw.op = "swap" /\ Len(text) = 1) => (out.value = text)
            /\ EditBound(text, out.value)

PerturbOneOperationWitness ==
    /\ Corrupted
    /\ Len(text) = 3 /\ pdraw.op = "ins" /\ pdraw.idx = 2
    /\ Len(out.value) = 4 /\ out.value[3] = pdraw.letter

\* C7: perturb never raises and never uses an index outside the text; None
\* and the empty text come back unchanged, without a draw; a swap drawn at
\* the last position of a longer text exchanges the last two characters; and
\* on a one-character text every operation completes, the swap leaving the
\* text as it is.
PerturbSafe ==
    (ppc = "ret") =>
        /\ ~out.raised
        /\ (~Truthy(text)) => (out.value = text /\ out.used = 0)
        /\ (Corrupted /\ pdraw.op = "swap" /\ Len(text) >= 2) =>
              /\ SwapPartner(pdraw.idx, Len(text)) \in 0..(Len(text) - 1)
              /\ (pdraw.idx = Len(text) - 1) =>
                    (out.value = Exchanged(text, Len(text), Len(text) - 1))
        /\ (Corrupted /\ Len(text) = 1) =>
              /\ (pdraw.op = "swap") => (out.value = text)
              /\ (pdraw.op = "del") => (out.value = <<>>)
              /\ (pdraw.op \in {"ins", "rep"}) => (Len(out.value) \in {1, 2})

PerturbSafeWitness ==
    /\ Corrupted
    /\ Len(text) = 3 /\ pdraw.op = "swap" /\ pdraw.idx = 2
    /\ text[2] # text[3]
    /\ out.value = <<text[1], text[3], text[2]>>

\* C8: in a returned dataset, each duplicate d and the unique record s with
\* s.id = d.original_id: d.name is s.name or s.name with one operation
\* applied; if s.address is absent, d.address is absent and perturb was not
\* called on it; otherwise d.address is absent, s.address, or s.address with
\* one operation applied; d.city and d.date_of_birth are absent or the
\* source's.
DuplicateDerived ==
    \A r \in Runs :
        (pc[r] = "done") =>
            LET rows == result[r]
            IN  \A k \in DupRows(r, rows) :
                    \E u \in UniqueRows(r, rows) :
                        LET d == rows[k]
                            s == rows[u]
                        IN  /\ s.id = d.original_id
                            /\ d.name \in {s.name} \cup OneOp(s.name)
                            /\ "name" \in LogOf(r, rows, k).perturbed
                            /\ IF s.address = None
                               THEN /\ d.address = None
                                    /\ "address" \notin LogOf(r, rows, k).perturbed
                               ELSE d.address \in {None, s.address} \cup OneOp(s.address)
                            /\ d.city \in {None, s.city}
                            /\ d.date_of_birth \in {None, s.date_of_birth}

DuplicateDerivedWitness ==
    /\ pc[1] = "done" /\ n_unique[1] = 1 /\ n_duplicates[1] = 1
    /\ Len(result[1]) = 2
    /\ result[1][1].address = None
    /\ result[1][2].name # result[1][1].name
    /\ result[1][1].city # None /\ result[1][2].city = None

\* C9: in a returned dataset no name, address, city or date_of_birth is the
\* empty text: each is None or a non-empty text.
NoEmptyField ==
    \A r \in Runs :
        (pc[r] = "done") =>
            \A k \in 1..Len(result[r]) : \A f \in Fields : result[r][k][f] # <<>>

\* C10, one step of a call: every dict already in `data` stays where it is
\* and as it is; a duplicate under construction is a dict of its own, not in
\* `data`, made when all n_unique unique records are in `data` as a copy of
\* its source; and the dataset returned is `data` as it stands.
FrameStep ==
    \A r \in Runs :
        /\ \A k \in 1..Len(data[r]) :
              /\ k <= Len(data'[r])
              /\ data'[r][k] = data[r][k]
              /\ heap'[r][data'[r][k]] = heap[r][data[r][k]]
        /\ (pc[r] = "dup" /\ pc'[r] = "update") =>
              /\ Len(data[r]) >= n_unique[r]
              /\ heap'[r][dup'[r]] = heap[r][orig'[r]]
        /\ (pc'[r] \in {"update", "drop_d"}) =>
              /\ dup'[r] # orig'[r]
              /\ \A k \in 1..Len(data'[r]) : data'[r][k] # dup'[r]
        /\ (pc'[r] = "done") => (result'[r] = DataFrame(heap[r], data[r]))

\* C10: every step of every call is a FrameStep.
FrameEffect == [][FrameStep]_vars

FrameEffectWitness ==
    /\ pc[1] = "done" /\ n_unique[1] = 1 /\ n_duplicates[1] = 1
    /\ Len(result[1]) = 2
    /\ result[1][2].original_id = result[1][1].id
    /\ result[1][2].id # result[1][1].id
    /\ result[1][2].name # result[1][1].name
    /\ result[1][1].address # None /\ result[1][2].address = None
    /\ result[1][1].date_of_birth # None /\ result[1][2].date_of_birth = None

====
